---- MODULE Spec2Model ----
(***************************************************************************)
(* Dispatch core of the toolkit (app.py): the queue_task wrapper run by    *)
(* every request thread, the TaskQueueManager work queue and its single    *)
(* worker loop, and the webhook notifier the worker calls.                 *)
(*                                                                         *)
(* Each request is served by its own thread; the worker is one more        *)
(* thread.  A step of the model is one atomic stretch of one thread: the   *)
(* stretches are cut at every access to the shared queue and around every  *)
(* call that takes time (the operation, the webhook POST).                 *)
(*                                                                         *)
(* Spec is the app with routes that are view functions under queue_task;   *)
(* SpecRoutes adds the routes built by BaseRouteHandler.create_route, with *)
(* authenticate and validate_payload in front of the dispatcher and        *)
(* handle_request as the operation; FairSpec adds the worker's fairness.   *)
(***************************************************************************)
EXTENDS Integers, Sequences, FiniteSets, TLC

\* ---- bounds of the model ----
MaxRequests == 2        \* request threads served in one run
MaxTime     == 2        \* the clock saturates here (in ticks)

\* ---- values ----
None  == "None"         \* Python's None
Unset == "unset"        \* environment variable absent
NoJob == [job_id |-> 0] \* worker holds no envelope
Pid           == "pid"
QueueId       == "queue_id"
BUILD_NUMBER  == "build"
Route         == "route"
TicksPerMs    == 3      \* resolution of the model's clock: ticks to a millisecond

Requests == 1..MaxRequests

\* request bodies: none, without and with a webhook_url key
Payloads ==
    { [id |-> "a"],
      [id |-> "a", webhook_url |-> "u1"],
      [webhook_url |-> "u2"] }

\* values of the MAX_QUEUE_LENGTH environment variable
EnvSettings == {Unset, "0", "1", "2"}

VARIABLES
    environ,          \* os.environ['MAX_QUEUE_LENGTH'] (or Unset)
    url_map,          \* the routes registered on the app
    threads,          \* processing threads started so far
    now,              \* time.time()
    uuid,             \* number of uuid4() values handed out
    task_queue,       \* Queue(): sequence of envelopes
    unfinished_tasks, \* Queue.unfinished_tasks
    pc,               \* position of each request thread in wrapper
    loc,              \* wrapper locals of each request thread
    returned,         \* the latest return of wrapper: request, body, status
    answered,         \* per request: the status it was answered with
    wpc,              \* position of the worker in _process_queue
    wloc,             \* locals of the worker's current iteration
    \* history
    pushed,           \* job ids in the order of put()
    started,          \* job ids in the order the worker began their operation
    running,          \* operations in progress: <<thread kind, job id>>
    ranInline,        \* job ids whose operation a request thread began
    finished,         \* job ids whose operation returned or raised in the worker
    webhooks,         \* POSTs issued by the worker, in order
    seen,             \* per request: what was outstanding at its capacity check
    maxConc,          \* most requests ever simultaneously between check and put
    dropped           \* job ids whose operation raised in the worker

vars == << environ, url_map, threads, now, uuid, task_queue, unfinished_tasks, pc, loc, returned, answered,
           wpc, wloc, pushed, started, running, ranInline, finished,
           webhooks, seen, maxConc, dropped >>

hist == << pushed, started, running, ranInline, finished, webhooks, seen, maxConc,
           dropped >>

\* ---- helpers ----

\* dict.get(key): None when the key is absent
Get(d, k) == IF k \in DOMAIN d THEN d[k] ELSE None

\* int(s) of a decimal string
ParseInt(s) == CASE s = "0" -> 0 [] s = "1" -> 1 [] s = "2" -> 2

\* int(os.environ.get('MAX_QUEUE_LENGTH', 0))
EnvInt(v) == IF v = Unset THEN 0 ELSE ParseInt(v)

MAX_QUEUE_LENGTH == EnvInt(environ)

\* a later reading of the clock: time does not run backwards
Later(t) == { u \in t..MaxTime : u <= t + 1 }

\* round(x, 3) of a duration of x ticks, in milliseconds: to the nearest
\* millisecond, an exact half to the even one
Round3(x) ==
    LET q == x \div TicksPerMs
        r == x % TicksPerMs
    IN  IF 2 * r < TicksPerMs THEN q
        ELSE IF 2 * r > TicksPerMs THEN q + 1
        ELSE IF q % 2 = 0 THEN q ELSE q + 1

\* variant: the same value is handed out again
Uuid4_Repeats(n) == IF n = 0 THEN 1 ELSE n

\* line 74: uuid.uuid4(): a value never handed out before; n values were
Uuid4(n) == n + 1

\* line 27: _start_processing_thread starts one more thread on _process_queue
StartProcessingThread(n) == n + 1

\* variant: both conditions required
ShouldRunInline_Both(bypass_queue, data) ==
    bypass_queue /\ "webhook_url" \notin DOMAIN data

\* line 79: run on the request thread?
ShouldRunInline(bypass_queue, data) ==
    bypass_queue \/ "webhook_url" \notin DOMAIN data

\* variant: strict comparison
QueueFull_Strict(max, qsize) == max > 0 /\ qsize > max

\* variant: the limit applies even when it is not positive
QueueFull_Unguarded(max, qsize) == qsize >= max

\* line 97: backpressure test
QueueFull(max, qsize) == max > 0 /\ qsize >= max

\* variant: get() leaves the item on the queue
Dequeue_Peek(q) == [ item |-> Head(q), rest |-> q ]

\* variant: last in, first out
Dequeue_Lifo(q) == [ item |-> q[Len(q)], rest |-> SubSeq(q, 1, Len(q) - 1) ]

\* line 33: Queue.get() hands out the oldest item
Dequeue(q) == [ item |-> Head(q), rest |-> Tail(q) ]

\* what the operation f returns: (result, route, status)
OpResponse(outcome, job_id) ==
    IF outcome = "ok" THEN << "result", Route, 200 >>
                      ELSE << "failed", Route, 500 >>

OpOutcomes == {"ok", "err"}

\* the outcome of a call: a returned value or a raised exception
Returned(v) == [raised |-> FALSE, value |-> v]
Raised(e)   == [raised |-> TRUE, value |-> e]

\* what process_func(job_id, data) does: returns a file path, a dict with
\* image_urls, something else, or raises
ProcOutcomes ==
    { [kind |-> "str",   value |-> "file"],
      [kind |-> "dict",  value |-> "image_urls"],
      [kind |-> "other", value |-> "result"],
      [kind |-> "raise", value |-> "process failed"] }

\* what upload_file(path) does: returns the cloud URL or raises
UploadOutcomes ==
    { [kind |-> "str",   value |-> "cloud_url"],
      [kind |-> "raise", value |-> "upload failed"] }

\* variant: the upload is made outside the try block
HandleRequest_UploadOutsideTry(proc, upload, route_path) ==
    IF proc.kind = "raise" THEN Returned(<< proc.value, route_path, 500 >>)
    ELSE IF proc.kind = "str"
         THEN IF upload.kind = "raise"
              THEN Raised(upload.value)
              ELSE Returned(<< upload.value, route_path, 200 >>)
         ELSE Returned(<< proc.value, route_path, 200 >>)

\* base_route_handler.py lines 32-53: handle_request
HandleRequest(proc, upload, route_path) ==
    IF proc.kind = "raise" THEN Returned(<< proc.value, route_path, 500 >>)
    ELSE IF proc.kind = "str"
         THEN IF upload.kind = "raise"
              THEN Returned(<< upload.value, route_path, 500 >>)
              ELSE Returned(<< upload.value, route_path, 200 >>)
         ELSE Returned(<< proc.value, route_path, 200 >>)

\* the outcomes of calling the decorated function f(job_id=..., data=...):
\* route_handler (create_route, line 75) is a call of handle_request; any
\* other view function returns a tuple or raises
Calls(f, job_id) ==
    IF f = "route_handler"
    THEN { HandleRequest(p, u, Route) : p \in ProcOutcomes, u \in UploadOutcomes }
    ELSE { Returned(OpResponse(o, job_id)) : o \in OpOutcomes } \cup { Raised("error") }

\* ---- the stages in front of the dispatcher ----

\* config.API_KEY
API_KEY == "key"

\* the X-API-Key header: absent, wrong, right
ApiKeys == {None, "wrong", API_KEY}

\* how a route is put together: by create_route (authenticate,
\* validate_payload, queue_task with bypass_queue False, around route_handler),
\* or by queue_task alone around a view function
Routes ==
    { [f |-> "route_handler", guarded |-> TRUE, bypass_queue |-> FALSE] }
       \cup { [f |-> "view", guarded |-> FALSE, bypass_queue |-> b] : b \in BOOLEAN }

ViewRoutes == { route \in Routes : ~route.guarded }

\* services/authentication.py lines 21-38: 401, or 0 when func is called
Authenticate(api_key) ==
    IF api_key = None THEN 401
    ELSE IF api_key # API_KEY THEN 401
    ELSE 0

\* app_utils.py lines 24-36: 400, or 0 when f is called
ValidatePayload(has_json, valid) ==
    IF ~has_json THEN 400
    ELSE IF ~valid THEN 400
    ELSE 0

\* variant: the two decorators in the other order
Stages_ValidateFirst(route, api_key, has_json, valid) ==
    IF ~route.guarded THEN 0
    ELSE IF ValidatePayload(has_json, valid) # 0 THEN ValidatePayload(has_json, valid)
    ELSE Authenticate(api_key)

\* variant: validate_payload left out
Stages_NoValidation(route, api_key, has_json, valid) ==
    IF ~route.guarded THEN 0
    ELSE Authenticate(api_key)

\* base_route_handler.py lines 70-75: the decorators of create_route, outermost
\* first; 0 when the request reaches the dispatcher
Stages(route, api_key, has_json, valid) ==
    IF ~route.guarded THEN 0
    ELSE IF Authenticate(api_key) # 0 THEN Authenticate(api_key)
    ELSE ValidatePayload(has_json, valid)

\* the request satisfies every stage its route puts in front of the dispatcher
Admissible(route, api_key, has_json, valid) ==
    route.guarded => (api_key = API_KEY /\ has_json /\ valid)

NoLoc  == [job_id |-> 0]
NoReturn == [req |-> 0, status |-> 0, response |-> None]
NoAnswer == [status |-> 0, job_id |-> 0, webhook_url |-> None]
NoSeen == [waiting |-> 0, pending |-> 0, taken |-> 0]

\* ---- envelopes ----

\* variant: queue_time measured like run_time
InlineEnvelope_Queued(response, data, job_id, run_time, qsize) ==
    [ code         |-> response[3],
      id           |-> Get(data, "id"),
      job_id       |-> job_id,
      response     |-> IF response[3] = 200 THEN response[1] ELSE None,
      message      |-> IF response[3] = 200 THEN "success" ELSE response[1],
      run_time     |-> Round3(run_time),
      queue_time   |-> Round3(run_time),
      total_time   |-> Round3(run_time),
      pid          |-> Pid,
      queue_id     |-> QueueId,
      queue_length |-> qsize,
      build_number |-> BUILD_NUMBER ]

\* lines 82-95: the envelope of the inline path
InlineEnvelope(response, data, job_id, run_time, qsize) ==
    [ code         |-> response[3],
      id           |-> Get(data, "id"),
      job_id       |-> job_id,
      response     |-> IF response[3] = 200 THEN response[1] ELSE None,
      message      |-> IF response[3] = 200 THEN "success" ELSE response[1],
      run_time     |-> Round3(run_time),
      queue_time   |-> 0,
      total_time   |-> Round3(run_time),
      pid          |-> Pid,
      queue_id     |-> QueueId,
      queue_length |-> qsize,
      build_number |-> BUILD_NUMBER ]

\* variant: the rejection envelope built like the accepted one
RejectEnvelope_WithMax(data, job_id, max, qsize) ==
    [ code             |-> 429,
      id               |-> Get(data, "id"),
      job_id           |-> job_id,
      message          |-> << "MAX_QUEUE_LENGTH (", max, ") reached" >>,
      pid              |-> Pid,
      queue_id         |-> QueueId,
      max_queue_length |-> max,
      queue_length     |-> qsize,
      build_number     |-> BUILD_NUMBER ]

\* variant: the rejection reports the limit instead of reading the queue
RejectEnvelope_ReportsLimit(data, job_id, max, qsize) ==
    [ code         |-> 429,
      id           |-> Get(data, "id"),
      job_id       |-> job_id,
      message      |-> << "MAX_QUEUE_LENGTH (", max, ") reached" >>,
      pid          |-> Pid,
      queue_id     |-> QueueId,
      queue_length |-> max,
      build_number |-> BUILD_NUMBER ]

\* lines 98-107: the rejection envelope
RejectEnvelope(data, job_id, max, qsize) ==
    [ code         |-> 429,
      id           |-> Get(data, "id"),
      job_id       |-> job_id,
      message      |-> << "MAX_QUEUE_LENGTH (", max, ") reached" >>,
      pid          |-> Pid,
      queue_id     |-> QueueId,
      queue_length |-> qsize,
      build_number |-> BUILD_NUMBER ]

\* lines 111-121: the accepted envelope
AcceptedEnvelope(data, job_id, max, qsize) ==
    [ code             |-> 202,
      id               |-> Get(data, "id"),
      job_id           |-> job_id,
      message          |-> "processing",
      pid              |-> Pid,
      queue_id         |-> QueueId,
      max_queue_length |-> IF max > 0 THEN max ELSE "unlimited",
      queue_length     |-> qsize,
      build_number     |-> BUILD_NUMBER ]

\* variant: the operation's first element is passed on whatever the status
WebhookPayload_KeepsResponse(response, data, job_id, run_time, queue_time, total_time, qsize) ==
    [ endpoint     |-> response[2],
      code         |-> response[3],
      id           |-> Get(data, "id"),
      job_id       |-> job_id,
      response     |-> response[1],
      message      |-> IF response[3] = 200 THEN "success" ELSE response[1],
      pid          |-> Pid,
      queue_id     |-> QueueId,
      run_time     |-> Round3(run_time),
      queue_time   |-> Round3(queue_time),
      total_time   |-> Round3(total_time),
      queue_length |-> qsize,
      build_number |-> BUILD_NUMBER ]

\* variant: total_time taken from run_time, as on the inline path
WebhookPayload_TotalIsRun(response, data, job_id, run_time, queue_time, total_time, qsize) ==
    [ endpoint     |-> response[2],
      code         |-> response[3],
      id           |-> Get(data, "id"),
      job_id       |-> job_id,
      response     |-> IF response[3] = 200 THEN response[1] ELSE None,
      message      |-> IF response[3] = 200 THEN "success" ELSE response[1],
      pid          |-> Pid,
      queue_id     |-> QueueId,
      run_time     |-> Round3(run_time),
      queue_time   |-> Round3(queue_time),
      total_time   |-> Round3(run_time),
      queue_length |-> qsize,
      build_number |-> BUILD_NUMBER ]

\* variant: the worker draws a job id of its own
WebhookPayload_OwnId(response, data, job_id, run_time, queue_time, total_time, qsize) ==
    [ endpoint     |-> response[2],
      code         |-> response[3],
      id           |-> Get(data, "id"),
      job_id       |-> job_id + 1,
      response     |-> IF response[3] = 200 THEN response[1] ELSE None,
      message      |-> IF response[3] = 200 THEN "success" ELSE response[1],
      pid          |-> Pid,
      queue_id     |-> QueueId,
      run_time     |-> Round3(run_time),
      queue_time   |-> Round3(queue_time),
      total_time   |-> Round3(total_time),
      queue_length |-> qsize,
      build_number |-> BUILD_NUMBER ]

\* lines 42-56: the webhook payload built by the worker
WebhookPayload(response, data, job_id, run_time, queue_time, total_time, qsize) ==
    [ endpoint     |-> response[2],
      code         |-> response[3],
      id           |-> Get(data, "id"),
      job_id       |-> job_id,
      response     |-> IF response[3] = 200 THEN response[1] ELSE None,
      message      |-> IF response[3] = 200 THEN "success" ELSE response[1],
      pid          |-> Pid,
      queue_id     |-> QueueId,
      run_time     |-> Round3(run_time),
      queue_time   |-> Round3(queue_time),
      total_time   |-> Round3(total_time),
      queue_length |-> qsize,
      build_number |-> BUILD_NUMBER ]

\* line 109: the tuple put on the queue.  task_func is the closure over the
\* request's own job_id and data; req names the request that built it.
Envelope(r, f, job_id, data, start_time) ==
    [ job_id           |-> job_id,
      data             |-> data,
      task_func        |-> [job_id |-> job_id, data |-> data, req |-> r, f |-> f],
      queue_start_time |-> start_time ]

\* ---- initial state: after create_app() ----

Start(routes) ==
    /\ environ \in EnvSettings
    /\ url_map = routes
    /\ threads = StartProcessingThread(0)
    /\ now = 0
    /\ uuid = 0
    /\ task_queue = << >>
    /\ unfinished_tasks = 0
    /\ pc = [r \in Requests |-> "idle"]
    /\ loc = [r \in Requests |-> NoLoc]
    /\ returned = NoReturn
    /\ answered = [r \in Requests |-> NoAnswer]
    /\ wpc = "get"
    /\ wloc = NoJob
    /\ pushed = << >>
    /\ started = << >>
    /\ running = {}
    /\ ranInline = {}
    /\ finished = {}
    /\ webhooks = << >>
    /\ seen = [r \in Requests |-> NoSeen]
    /\ maxConc = 0
    /\ dropped = {}

\* an app whose routes are bare view functions under queue_task
Init == Start(ViewRoutes)

\* an app that also has routes built by create_route
InitRoutes == Start(Routes)

\* ---- the request thread: wrapper, lines 73-121 ----

\* requests answered 202 so far
Accepted == { r \in Requests : answered[r].status = 202 }

\* requests between a passed capacity check and their put()
InWindow == { r \in Requests : pc[r] = "put" }

\* return body, status: the thread ends and its locals with it; response is
\* what the operation returned when the thread ran it (line 80), else None
Return(r, body, status, response) ==
    /\ returned' = [req |-> r, body |-> body, status |-> status, response |-> response]
    /\ answered' = [answered EXCEPT ![r] =
                      [ status      |-> status,
                        job_id      |-> body.job_id,
                        webhook_url |-> Get(loc[r].data, "webhook_url") ]]
    /\ loc' = [loc EXCEPT ![r] = NoLoc]
    /\ pc' = [pc EXCEPT ![r] = "done"]

\* lines 74-80: ids, payload, start time, and the inline/enqueue decision;
\* on the inline path the operation is called here
Begin(r) ==
    /\ pc[r] = "idle"
    /\ \A q \in Requests : q < r => pc[q] # "idle"
    /\ \E route \in url_map, api_key \in ApiKeys, has_json \in BOOLEAN, valid \in BOOLEAN,
          data \in Payloads, t \in Later(now) :
          LET job_id == Uuid4(uuid)
              bypass_queue == route.bypass_queue
          IN
          /\ has_json
          /\ Stages(route, api_key, has_json, valid) = 0
          /\ uuid' = job_id
          /\ now' = t
          /\ loc' = [loc EXCEPT ![r] = [ job_id |-> job_id, data |-> data,
                                         f |-> route.f,
                                         bypass_queue |-> bypass_queue,
                                         admissible |-> Admissible(route, api_key,
                                                                   has_json, valid),
                                         start_time |-> t ]]
          /\ IF ShouldRunInline(bypass_queue, data)
             THEN /\ pc' = [pc EXCEPT ![r] = "inline"]
                  /\ running' = running \cup { << "request", job_id >> }
                  /\ ranInline' = ranInline \cup { job_id }
             ELSE /\ pc' = [pc EXCEPT ![r] = "check"]
                  /\ UNCHANGED << running, ranInline >>
    /\ UNCHANGED << environ, url_map, threads, task_queue, unfinished_tasks, returned, answered, wpc, wloc,
                    pushed, started, finished, webhooks, seen, maxConc, dropped >>

\* a stage in front of the dispatcher answers the request itself: 401 from
\* authenticate, 400 from validate_payload; wrapper is not called
Refused(r) ==
    /\ pc[r] = "idle"
    /\ \A q \in Requests : q < r => pc[q] # "idle"
    /\ \E route \in url_map, api_key \in ApiKeys, has_json \in BOOLEAN, valid \in BOOLEAN :
          LET status == Stages(route, api_key, has_json, valid) IN
          /\ status # 0
          /\ answered' = [answered EXCEPT ![r] =
                            [ status      |-> status,
                              job_id      |-> 0,
                              webhook_url |-> None,
                              authorized  |-> api_key = API_KEY,
                              well_formed |-> has_json /\ valid ]]
    /\ pc' = [pc EXCEPT ![r] = "refused"]
    /\ UNCHANGED << environ, url_map, threads, now, uuid, task_queue, unfinished_tasks, loc,
                    returned, wpc, wloc, hist >>

\* lines 80-95: the operation returns on the request thread
InlineReturn(r) ==
    /\ pc[r] = "inline"
    /\ \E res \in Calls(loc[r].f, loc[r].job_id), t \in Later(now) :
          LET response == res.value
              run_time == t - loc[r].start_time
          IN
          /\ ~res.raised
          /\ now' = t
          /\ Return(r, InlineEnvelope(response, loc[r].data, loc[r].job_id,
                                      run_time, Len(task_queue)),
                    response[3], response)
    /\ running' = running \ { << "request", loc[r].job_id >> }
    /\ UNCHANGED << environ, url_map, threads, uuid, task_queue, unfinished_tasks, wpc, wloc,
                    pushed, started, ranInline, finished, webhooks, seen, maxConc, dropped >>

\* line 80: the operation raises on the request thread; wrapper returns nothing
InlineRaise(r) ==
    /\ pc[r] = "inline"
    /\ \E res \in Calls(loc[r].f, loc[r].job_id) : res.raised
    /\ pc' = [pc EXCEPT ![r] = "raised"]
    /\ loc' = [loc EXCEPT ![r] = NoLoc]
    /\ running' = running \ { << "request", loc[r].job_id >> }
    /\ UNCHANGED << environ, url_map, threads, now, uuid, task_queue, unfinished_tasks, returned,
                    answered, wpc, wloc, pushed, started, ranInline, finished, webhooks,
                    seen, maxConc, dropped >>

\* line 97: the capacity check, one reading of qsize()
Check(r) ==
    /\ pc[r] = "check"
    /\ pc' = [pc EXCEPT ![r] =
                IF QueueFull(MAX_QUEUE_LENGTH, Len(task_queue)) THEN "reject" ELSE "put"]
    /\ seen' = [seen EXCEPT ![r] =
                  [ waiting |-> Cardinality({ a \in Accepted :
                                   \A i \in 1..Len(started) : started[i] # answered[a].job_id }),
                    pending |-> Cardinality({ a \in Accepted :
                                   answered[a].job_id \notin finished }),
                    taken   |-> Len(started) ]]
    /\ maxConc' = IF /\ ~QueueFull(MAX_QUEUE_LENGTH, Len(task_queue))
                     /\ Cardinality(InWindow) + 1 > maxConc
                  THEN Cardinality(InWindow) + 1 ELSE maxConc
    /\ UNCHANGED << environ, url_map, threads, now, uuid, task_queue, unfinished_tasks, loc, returned, answered,
                    wpc, wloc, pushed, started, running, ranInline, finished,
                    webhooks, dropped >>

\* variant: the 429 branch falls through to the put() of line 109
Reject_FallsThrough(r) ==
    /\ pc[r] = "reject"
    /\ Return(r, RejectEnvelope(loc[r].data, loc[r].job_id,
                                MAX_QUEUE_LENGTH, Len(task_queue)),
              429, None)
    /\ task_queue' = Append(task_queue,
                        Envelope(r, loc[r].f, loc[r].job_id, loc[r].data, loc[r].start_time))
    /\ unfinished_tasks' = unfinished_tasks + 1
    /\ pushed' = Append(pushed, loc[r].job_id)
    /\ UNCHANGED << environ, url_map, threads, now, uuid, wpc, wloc, started, running, ranInline,
                    finished, webhooks, seen, maxConc, dropped >>

\* lines 98-107: build and return the 429 envelope (a second reading of qsize())
Reject(r) ==
    /\ pc[r] = "reject"
    /\ Return(r, RejectEnvelope(loc[r].data, loc[r].job_id,
                                MAX_QUEUE_LENGTH, Len(task_queue)),
              429, None)
    /\ UNCHANGED << environ, url_map, threads, now, uuid, task_queue, unfinished_tasks,
                    wpc, wloc, hist >>

\* variant: a queue of capacity one, put() waits for room
Put_Bounded(r) ==
    /\ pc[r] = "put"
    /\ Len(task_queue) < 1
    /\ task_queue' = Append(task_queue,
                        Envelope(r, loc[r].f, loc[r].job_id, loc[r].data, loc[r].start_time))
    /\ unfinished_tasks' = unfinished_tasks + 1
    /\ pushed' = Append(pushed, loc[r].job_id)
    /\ pc' = [pc EXCEPT ![r] = "accepted"]
    /\ UNCHANGED << environ, url_map, threads, now, uuid, loc, returned, answered, wpc, wloc, started,
                    running, ranInline, finished, webhooks, seen, maxConc, dropped >>

\* line 109: task_queue.put(...)
Put(r) ==
    /\ pc[r] = "put"
    /\ task_queue' = Append(task_queue,
                        Envelope(r, loc[r].f, loc[r].job_id, loc[r].data, loc[r].start_time))
    /\ unfinished_tasks' = unfinished_tasks + 1
    /\ pushed' = Append(pushed, loc[r].job_id)
    /\ pc' = [pc EXCEPT ![r] = "accepted"]
    /\ UNCHANGED << environ, url_map, threads, now, uuid, loc, returned, answered, wpc, wloc, started, running,
                    ranInline, finished, webhooks, seen, maxConc, dropped >>

\* lines 111-121: build and return the 202 envelope
Return202(r) ==
    /\ pc[r] = "accepted"
    /\ Return(r, AcceptedEnvelope(loc[r].data, loc[r].job_id,
                                  MAX_QUEUE_LENGTH, Len(task_queue)),
              202, None)
    /\ UNCHANGED << environ, url_map, threads, now, uuid, task_queue, unfinished_tasks,
                    wpc, wloc, hist >>

\* ---- the webhook notifier: services/webhook.py ----

\* what requests.post comes back with: a response with a status code, or a
\* RequestException (connection error, timeout, invalid URL)
PostOutcomes ==
    { [kind |-> "response", status_code |-> c] : c \in {101, 200, 304, 404, 500} }
       \cup { [kind |-> "exception", status_code |-> 0] }

\* line 40: Response.raise_for_status() raises HTTPError for 4xx and 5xx
RaiseForStatus(post) == 400 <= post.status_code /\ post.status_code < 600

\* lines 32-47: send_webhook: True unless requests.post or raise_for_status
\* raised a RequestException
SendWebhook(post) ==
    IF post.kind = "exception" THEN FALSE
    ELSE IF RaiseForStatus(post) THEN FALSE
    ELSE TRUE

\* ---- the worker thread: _process_queue, lines 29-63 ----

\* variant: the POST is handed to another thread and the loop goes on
AtLoopTop_DuringSend == wpc \in {"get", "sending"}

\* variant: the loop does not wait for the operation it started
AtLoopTop_NoWait == wpc \in {"get", "run"}

\* lines 31-33: the worker calls get() only at the top of its loop
AtLoopTop == wpc = "get"

\* lines 33-38: get() an envelope, take the two clock readings, call task_func
WorkerGet ==
    /\ AtLoopTop
    /\ task_queue # << >>
    /\ LET env == Dequeue(task_queue).item IN
       \E t34 \in Later(now) : \E t35 \in Later(t34) :
          /\ now' = t35
          /\ wloc' = [ job_id           |-> env.job_id,
                       data             |-> env.data,
                       task_func        |-> env.task_func,
                       queue_start_time |-> env.queue_start_time,
                       queue_time       |-> t34 - env.queue_start_time,
                       run_start_time   |-> t35 ]
          /\ started' = Append(started, env.task_func.job_id)
          /\ running' = running \cup { << "worker", env.task_func.job_id >> }
    /\ task_queue' = Dequeue(task_queue).rest
    /\ wpc' = "run"
    /\ UNCHANGED << environ, url_map, threads, uuid, unfinished_tasks, pc, loc, returned, answered, pushed,
                    ranInline, finished, webhooks, seen, maxConc, dropped >>

\* lines 38-56: task_func returns; timings and the webhook payload
WorkerReturn ==
    /\ wpc = "run"
    /\ \E res \in Calls(wloc.task_func.f, wloc.task_func.job_id) :
       \E t39 \in Later(now) : \E t40 \in Later(t39) :
          LET response   == res.value
              run_time   == t39 - wloc.run_start_time
              total_time == t40 - wloc.queue_start_time
          IN
          /\ ~res.raised
          /\ now' = t40
          /\ wloc' = [ job_id        |-> wloc.job_id,
                       data          |-> wloc.data,
                       task_func     |-> wloc.task_func,
                       response      |-> response,
                       response_data |-> WebhookPayload(response, wloc.data,
                                            wloc.job_id, run_time, wloc.queue_time,
                                            total_time, Len(task_queue)) ]
    /\ wpc' = "send"
    /\ running' = running \ { << "worker", wloc.task_func.job_id >> }
    /\ finished' = finished \cup { wloc.task_func.job_id }
    /\ UNCHANGED << environ, url_map, threads, uuid, task_queue, unfinished_tasks, pc, loc, returned, answered,
                    pushed, started, ranInline, webhooks, seen, maxConc, dropped >>

\* variant: no handler, the exception ends the worker thread
WorkerRaise_Dies ==
    /\ wpc = "run"
    /\ \E res \in Calls(wloc.task_func.f, wloc.task_func.job_id) : res.raised
    /\ wpc' = "dead"
    /\ wloc' = NoJob
    /\ running' = running \ { << "worker", wloc.task_func.job_id >> }
    /\ finished' = finished \cup { wloc.task_func.job_id }
    /\ dropped' = dropped \cup { wloc.task_func.job_id }
    /\ UNCHANGED << environ, url_map, threads, now, uuid, task_queue, unfinished_tasks, pc, loc,
                    returned, answered, pushed, started, ranInline, webhooks, seen, maxConc >>

\* lines 38, 61-63: task_func raises; logged, the loop continues
WorkerRaise ==
    /\ wpc = "run"
    /\ \E res \in Calls(wloc.task_func.f, wloc.task_func.job_id) : res.raised
    /\ wpc' = "get"
    /\ wloc' = NoJob
    /\ running' = running \ { << "worker", wloc.task_func.job_id >> }
    /\ finished' = finished \cup { wloc.task_func.job_id }
    /\ dropped' = dropped \cup { wloc.task_func.job_id }
    /\ UNCHANGED << environ, url_map, threads, now, uuid, task_queue, unfinished_tasks, pc, loc,
                    returned, answered, pushed, started, ranInline, webhooks, seen, maxConc >>

\* variant: the POST is issued a second time
WorkerSend_Twice ==
    /\ wpc = "send"
    /\ webhooks' = webhooks \o
                      << [ url    |-> Get(wloc.data, "webhook_url"),
                           job_id |-> wloc.response_data.job_id,
                           req    |-> wloc.task_func.req ],
                         [ url    |-> Get(wloc.data, "webhook_url"),
                           job_id |-> wloc.response_data.job_id,
                           req    |-> wloc.task_func.req ] >>
    /\ wpc' = "sending"
    /\ UNCHANGED << environ, url_map, threads, now, uuid, task_queue, unfinished_tasks, pc, loc,
                    returned, answered, wloc, pushed, started, running, ranInline, finished,
                    seen, maxConc, dropped >>

\* line 58: send_webhook issues the POST
WorkerSend ==
    /\ wpc = "send"
    /\ webhooks' = Append(webhooks,
                      [ url    |-> Get(wloc.data, "webhook_url"),
                        job_id |-> wloc.response_data.job_id,
                        req    |-> wloc.task_func.req ])
    /\ wpc' = "sending"
    /\ UNCHANGED << environ, url_map, threads, now, uuid, task_queue, unfinished_tasks, pc, loc,
                    returned, answered, wloc, pushed, started, running, ranInline, finished,
                    seen, maxConc, dropped >>

\* line 58: send_webhook returns True or False; the worker ignores the value
WorkerSendReturn ==
    /\ wpc = "sending"
    /\ \E post \in PostOutcomes :
          wloc' = [ job_id        |-> wloc.job_id,
                    data          |-> wloc.data,
                    task_func     |-> wloc.task_func,
                    response      |-> wloc.response,
                    response_data |-> wloc.response_data,
                    post          |-> post,
                    sent          |-> SendWebhook(post) ]
    /\ wpc' = "task_done"
    /\ UNCHANGED << environ, url_map, threads, now, uuid, task_queue, unfinished_tasks, pc, loc,
                    returned, answered, hist >>

\* variant: a failed delivery is tried again
WorkerTaskDone_RetryFailed ==
    /\ wpc = "task_done"
    /\ IF wloc.sent
       THEN /\ unfinished_tasks' = unfinished_tasks - 1
            /\ wpc' = "get"
            /\ wloc' = NoJob
       ELSE /\ wpc' = "send"
            /\ UNCHANGED << unfinished_tasks, wloc >>
    /\ UNCHANGED << environ, url_map, threads, now, uuid, task_queue, pc, loc, returned, answered, hist >>

\* line 59: task_queue.task_done(), and back to the top of the loop
WorkerTaskDone ==
    /\ wpc = "task_done"
    /\ unfinished_tasks' = unfinished_tasks - 1
    /\ wpc' = "get"
    /\ wloc' = NoJob
    /\ UNCHANGED << environ, url_map, threads, now, uuid, task_queue, pc, loc, returned, answered, hist >>

Next ==
    \/ \E r \in Requests : Begin(r)
    \/ \E r \in Requests : InlineReturn(r)
    \/ \E r \in Requests : InlineRaise(r)
    \/ \E r \in Requests : Check(r)
    \/ \E r \in Requests : Reject(r)
    \/ \E r \in Requests : Put(r)
    \/ \E r \in Requests : Return202(r)
    \/ WorkerGet
    \/ WorkerReturn
    \/ WorkerRaise
    \/ WorkerSend
    \/ WorkerSendReturn
    \/ WorkerTaskDone

Spec == Init /\ [][Next]_vars

\* with routes built by create_route: their stages can answer a request
NextRoutes ==
    \/ \E r \in Requests : Refused(r)
    \/ Next

SpecRoutes == InitRoutes /\ [][NextRoutes]_vars

TypeOK ==
    /\ now \in 0..MaxTime
    /\ uuid \in 0..MaxRequests
    /\ unfinished_tasks \in 0..MaxRequests
    /\ wpc \in {"get", "run", "send", "sending", "task_done"}
    /\ threads \in 0..1
    /\ \A r \in Requests :
          pc[r] \in {"idle", "refused", "inline", "raised", "check", "reject", "put",
                     "accepted", "done"}

\* ---- shorthands for the properties ----

Config == MAX_QUEUE_LENGTH

\* the request thread still holds its locals
Live(r) == pc[r] \in {"inline", "check", "reject", "put", "accepted"}

OnEnqueuePath(r) == pc[r] \in {"check", "reject", "put", "accepted"}

SeqRange(q) == { q[i] : i \in 1..Len(q) }

WebhookJobs == { webhooks[i].job_id : i \in 1..Len(webhooks) }

QueuedJobs == { task_queue[i].job_id : i \in 1..Len(task_queue) }

WorkerOps == { x \in running : x[1] = "worker" }

\* ---- C1 ----

\* C1: a request's operation runs on the request thread if and only if
\* bypass_queue is true or the payload has no webhook_url key; otherwise the
\* request is on the enqueue path and its operation is not run by its thread.
C1_InlineIffBypassOrNoWebhook ==
    /\ \A r \in Requests : Live(r) =>
          LET inl == loc[r].bypass_queue \/ "webhook_url" \notin DOMAIN loc[r].data IN
          /\ (loc[r].job_id \in ranInline) <=> inl
          /\ inl => pc[r] = "inline"
          /\ ~inl => /\ OnEnqueuePath(r)
                     /\ << "request", loc[r].job_id >> \notin running
    /\ \A r \in Requests :
          answered[r].status \in {202, 429} => answered[r].job_id \notin ranInline

C1_Witness ==
    \E r, q \in Requests :
       /\ pc[r] = "inline" /\ loc[r].bypass_queue /\ "webhook_url" \in DOMAIN loc[r].data
       /\ pc[q] = "put" /\ ~loc[q].bypass_queue

\* ---- C2 ----

\* C2: FIFO: the worker begins operations in the order their envelopes were
\* pushed: the sequence of started jobs is a prefix of the sequence of pushes.
C2_Fifo ==
    /\ Len(started) <= Len(pushed)
    /\ \A i \in 1..Len(started) : started[i] = pushed[i]

C2_Witness ==
    /\ Len(started) >= 2
    /\ wpc = "run"

\* ---- C3 ----

\* C3 as claimed: at most one operation executes at any time, counting the
\* operations run inline by request threads and those run by the worker.
C3_SingleFlightAll == Cardinality(running) <= 1

\* C3: at most one operation executes on the worker at any time; operations
\* run inline by request threads are not serialized with it or with each other.
C3_SingleFlightDeferred == Cardinality(WorkerOps) <= 1

C3_Witness ==
    /\ Cardinality(WorkerOps) = 1
    /\ Cardinality(running) >= 2

\* ---- C4 ----

\* C4: the worker takes the next envelope off the queue only when every
\* operation it began has returned or raised, so at most one deferred
\* operation is begun and unfinished at any time.
C4_WorkerSequential ==
    /\ [](Cardinality(SeqRange(started) \ finished) <= 1)
    /\ [][Len(task_queue') < Len(task_queue) => SeqRange(started) \subseteq finished]_vars

C4_Witness ==
    /\ wpc = "run"
    /\ Len(task_queue) >= 1

\* ---- C5 ----

\* C5 as claimed: a request whose capacity check is made while N accepted
\* jobs have not completed is answered 429.
C5_RejectWhenNPending ==
    \A r \in Requests :
       (Config > 0 /\ seen[r].pending >= Config) =>
          (pc[r] \notin {"put", "accepted"} /\ answered[r].status # 202)

\* C5: a request whose capacity check is made while N accepted jobs are
\* still in the backlog (not yet taken by the worker) is answered 429, with a
\* message that holds the configured limit.
C5_RejectWhenNWaiting ==
    /\ \A r \in Requests :
          (Config > 0 /\ seen[r].waiting >= Config) =>
             (pc[r] \notin {"put", "accepted"} /\ answered[r].status # 202)
    /\ returned.status = 429 =>
          /\ returned.body.code = 429
          /\ returned.body.message = << "MAX_QUEUE_LENGTH (", Config, ") reached" >>

C5_Witness ==
    \E r \in Requests :
       /\ Config > 0
       /\ seen[r].waiting >= Config
       /\ answered[r].status = 429
       /\ returned.req = r

\* ---- C6 ----

\* C6: a request answered 429 is never pushed, its operation is never run
\* (inline or by the worker), no webhook is sent for its job id, and the
\* steps of the rejection leave the queue as it was.
C6_RejectedLeavesNoTrace ==
    /\ [](\A r \in Requests : answered[r].status = 429 =>
             /\ answered[r].job_id \notin SeqRange(pushed)
             /\ answered[r].job_id \notin QueuedJobs
             /\ answered[r].job_id \notin SeqRange(started)
             /\ answered[r].job_id \notin ranInline
             /\ answered[r].job_id \notin WebhookJobs)
    /\ [][\A r \in Requests :
             ((pc[r] = "check" /\ pc'[r] = "reject") \/ (pc[r] = "reject" /\ pc'[r] = "done")) =>
                (task_queue' = task_queue /\ unfinished_tasks' = unfinished_tasks)]_vars

C6_Witness ==
    \E r \in Requests :
       /\ answered[r].status = 429
       /\ Len(webhooks) >= 1
       /\ task_queue = << >>

\* ---- C7 ----

\* C7: with MAX_QUEUE_LENGTH 0 or unset no request is rejected: every
\* request on the enqueue path is pushed and answered 202.
C7_UnlimitedNeverRejects ==
    environ \in {Unset, "0"} =>
       \A r \in Requests :
          /\ pc[r] # "reject"
          /\ answered[r].status # 429
          /\ (pc[r] = "done" /\ answered[r].job_id \notin ranInline) =>
                (answered[r].status = 202 /\ answered[r].job_id \in SeqRange(pushed))

C7_Witness ==
    /\ environ = Unset
    /\ Len(task_queue) >= 2
    /\ \E r \in Requests : answered[r].status = 202

\* ---- C8 ----

\* C8: with a limit N > 0 the backlog can exceed N, and it never exceeds
\* N - 1 + K, K the most requests ever simultaneously between a passed
\* capacity check and their put().
C8_SoftLimit ==
    Config > 0 => Len(task_queue) <= Config - 1 + maxConc

C8_Witness ==
    /\ Config > 0
    /\ Len(task_queue) > Config

\* ---- C9 ----

\* C9: the envelope returned on the inline path has queue_time 0 and
\* total_time equal to run_time; the inline request pushes nothing and leaves
\* the queue as it was, and the worker never begins or notifies its job.
C9_InlineInvariant ==
    /\ [](returned.status \notin {0, 202, 429} =>
             /\ returned.body.queue_time = 0
             /\ returned.body.total_time = returned.body.run_time)
    /\ [](\A j \in ranInline :
             /\ j \notin SeqRange(pushed)
             /\ j \notin QueuedJobs
             /\ j \notin SeqRange(started)
             /\ j \notin WebhookJobs)
    /\ [][\A r \in Requests :
             ((pc[r] = "idle" /\ pc'[r] = "inline") \/ (pc[r] = "inline" /\ pc'[r] # "inline")) =>
                (task_queue' = task_queue /\ unfinished_tasks' = unfinished_tasks)]_vars

C9_Witness ==
    /\ returned.status = 200
    /\ returned.body.job_id \in ranInline
    /\ returned.body.run_time > 0
    /\ Len(task_queue) >= 1

\* ---- C10 ----

\* C10: for every request answered 202, the webhook the worker sends for
\* that request's envelope carries the job_id of the 202 envelope and goes
\* to the webhook_url of that request's payload.
C10_Correlation ==
    \A i \in 1..Len(webhooks) :
       LET w == webhooks[i] IN
       answered[w.req].status = 202 =>
          /\ w.job_id = answered[w.req].job_id
          /\ w.url = answered[w.req].webhook_url

C10_Witness ==
    /\ Len(webhooks) = 2
    /\ webhooks[1].url # webhooks[2].url
    /\ \A i \in 1..2 : answered[webhooks[i].req].status = 202

\* ---- C11 ----

Count(q, x) == Cardinality({ i \in 1..Len(q) : q[i] = x })

\* C11: every envelope pushed is consumed at most once: the worker begins
\* its operation at most one time, it is pushed only once (never re-queued),
\* and once the worker has begun it, it is no longer in the queue.
C11_ConsumedAtMostOnce ==
    \A j \in SeqRange(pushed) :
       /\ Count(pushed, j) = 1
       /\ Count(started, j) <= 1
       /\ Cardinality({ i \in 1..Len(task_queue) : task_queue[i].job_id = j }) <= 1
       /\ j \in SeqRange(started) => j \notin QueuedJobs

C11_Witness ==
    /\ Len(started) = 2
    /\ SeqRange(started) \subseteq finished
    /\ dropped # {}
    /\ Len(webhooks) = 1
    /\ wpc = "get"

\* ---- C12 ----

\* C12: when a queued operation raises in the worker, no webhook is ever
\* sent for that job and it is not put back on the queue; the worker is back
\* at the top of its loop, where it takes the next envelope when there is one.
C12_RaiseDropsJobWorkerLives ==
    /\ [](\A j \in dropped :
             /\ j \notin WebhookJobs
             /\ j \notin QueuedJobs
             /\ Count(pushed, j) = 1)
    /\ [][dropped' # dropped =>
             (wpc' = "get" /\ task_queue' = task_queue /\ webhooks' = webhooks)]_vars
    /\ []((dropped # {} /\ wpc = "get" /\ task_queue # << >>) => ENABLED WorkerGet)

C12_Witness ==
    /\ Len(started) = 2
    /\ started[1] \in dropped
    /\ Len(webhooks) = 1
    /\ webhooks[1].job_id = started[2]

\* ---- C13 ----

WebhookCount(j) == Cardinality({ i \in 1..Len(webhooks) : webhooks[i].job_id = j })

\* the worker holds a built webhook payload
HoldsPayload == wpc \in {"send", "sending", "task_done"}

\* C13: for every job whose operation returned in the worker there is
\* exactly one webhook POST, issued after the operation finished (none while
\* the worker is still about to issue it); when the operation's status is 200
\* the payload has code 200 and message "success".
C13_OneWebhookAfterReturn ==
    /\ \A j \in WebhookJobs : j \in finished /\ j \notin dropped /\ WebhookCount(j) = 1
    /\ \A j \in finished \ dropped :
          IF wpc = "send" /\ wloc.job_id = j THEN WebhookCount(j) = 0
                                             ELSE WebhookCount(j) = 1
    /\ (HoldsPayload /\ wloc.response[3] = 200) =>
          (wloc.response_data.code = 200 /\ wloc.response_data.message = "success")

C13_Witness ==
    /\ wpc = "task_done"
    /\ wloc.response[3] = 200
    /\ Len(webhooks) = 2

\* ---- C14 ----

\* C14: after a failed delivery (as after a successful one) the worker's
\* next step is task_done() and the top of the loop: no second POST, nothing
\* put on the queue, no operation begun again.
C14_FailedDeliveryChangesNothing ==
    /\ [](wpc = "task_done" => WebhookCount(wloc.job_id) = 1)
    /\ [][(wpc = "task_done" /\ wpc' # "task_done") =>
             /\ wpc' = "get"
             /\ unfinished_tasks' = unfinished_tasks - 1
             /\ task_queue' = task_queue
             /\ webhooks' = webhooks
             /\ started' = started
             /\ pushed' = pushed]_vars

C14_Witness ==
    /\ wpc = "task_done"
    /\ ~wloc.sent
    /\ wloc.post.kind = "exception"
    /\ Len(task_queue) >= 1

\* ---- C15 ----

\* C15: send_webhook returns True if and only if the POST got a 2xx
\* response; a transport failure and every other status (1xx, 3xx, 4xx, 5xx)
\* give False.
C15_TrueIffTwoXX ==
    wpc = "task_done" =>
       (wloc.sent <=> /\ wloc.post.kind = "response"
                      /\ 200 <= wloc.post.status_code
                      /\ wloc.post.status_code < 300)

\* ---- C16 ----

EnqueueStep(r) == Check(r) \/ Reject(r) \/ Put(r) \/ Return202(r)

PcRank(p) ==
    CASE p = "idle" -> 0
      [] p \in {"inline", "check"} -> 1
      [] p \in {"reject", "put"} -> 2
      [] p = "accepted" -> 3
      [] p \in {"done", "raised"} -> 4

\* C17: a request on the enqueue path can always take its next step,
\* whatever the worker is doing and however long the queue is (put() never
\* waits); each of its steps moves it forward, so it returns 202 or 429 after
\* at most three steps of its own.
C17_EnqueueNeverWaits ==
    /\ [](\A r \in Requests : OnEnqueuePath(r) => ENABLED EnqueueStep(r))
    /\ [][\A r \in Requests :
             (OnEnqueuePath(r) /\ pc'[r] # pc[r]) => PcRank(pc'[r]) > PcRank(pc[r])]_vars
    /\ [](\A r \in Requests :
             (pc[r] = "done" /\ answered[r].job_id \notin ranInline) =>
                answered[r].status \in {202, 429})

C17_Witness ==
    /\ wpc = "run"
    /\ Len(task_queue) = 1
    /\ \E r \in Requests : pc[r] = "accepted"

\* ---- C18 ----

\* C18: while a queued operation has not returned, the worker does nothing
\* else: no envelope behind it is begun or notified and the worker leaves the
\* operation only when it returns or raises; meanwhile requests on the
\* enqueue path can still take their steps.
C18_HeadOfLineBlocking ==
    /\ [][(wpc = "run" /\ wpc' = "run") =>
             (started' = started /\ webhooks' = webhooks /\ wloc' = wloc
                /\ WorkerOps' = WorkerOps)]_vars
    /\ [][(wpc = "run" /\ wpc' # "run") => wloc.task_func.job_id \in finished']_vars
    /\ [](wpc = "run" =>
             /\ \A j \in QueuedJobs : j \notin SeqRange(started) /\ j \notin WebhookJobs
             /\ \A r \in Requests : OnEnqueuePath(r) => ENABLED EnqueueStep(r))

C18_Witness ==
    /\ wpc = "run"
    /\ \E r \in Requests :
          answered[r].status = 202 /\ answered[r].job_id \in QueuedJobs

\* ---- C19 ----

\* the wrapper's latest return came from the inline path
InlineReturned == returned.status \notin {0, 202, 429}

\* body reports the operation's tuple rsp the way lines 44-48 / 83-87 do
Reports(body, rsp) ==
    /\ body.code = rsp[3]
    /\ IF rsp[3] = 200
       THEN body.message = "success" /\ body.response = rsp[1]
       ELSE body.message = rsp[1] /\ body.response = None
    /\ (body.message = "success") <=> (rsp[3] = 200)

\* C19: the inline envelope and the worker's webhook payload carry the
\* operation's status as code; with a status other than 200 the message is
\* the operation's message and response is None, with 200 the message is
\* "success" and response is the result; the inline HTTP status is the
\* operation's status.
C19_StatusPropagated ==
    /\ InlineReturned =>
          /\ Reports(returned.body, returned.response)
          /\ returned.status = returned.response[3]
    /\ HoldsPayload => Reports(wloc.response_data, wloc.response)

C19_Witness ==
    /\ InlineReturned
    /\ returned.status = 500
    /\ HoldsPayload
    /\ wloc.response[3] = 500

\* ---- C20 ----

AcceptedFields ==
    { "code", "id", "job_id", "message", "pid", "queue_id", "max_queue_length",
      "queue_length", "build_number" }

\* C20: a 202 comes with exactly one push of the job and an envelope with
\* message "processing", without response, run_time, queue_time or
\* total_time, and with max_queue_length the limit when positive and
\* "unlimited" otherwise; the 429 and inline envelopes have no
\* max_queue_length, and only the webhook payload has endpoint.
C20_EnvelopeShapes ==
    /\ returned.status = 202 =>
          /\ returned.body.code = 202
          /\ returned.body.message = "processing"
          /\ DOMAIN returned.body = AcceptedFields
          /\ IF Config > 0 THEN returned.body.max_queue_length = Config
                           ELSE returned.body.max_queue_length = "unlimited"
          /\ Count(pushed, returned.body.job_id) = 1
    /\ returned.status # 0 => "endpoint" \notin DOMAIN returned.body
    /\ (returned.status = 429 \/ InlineReturned) =>
          "max_queue_length" \notin DOMAIN returned.body
    /\ HoldsPayload =>
          /\ "endpoint" \in DOMAIN wloc.response_data
          /\ "max_queue_length" \notin DOMAIN wloc.response_data

C20_Witness ==
    /\ Config > 0
    /\ returned.status = 202
    /\ Len(task_queue) = 2
    /\ \E r \in Requests : answered[r].status = 202 /\ returned.req # r

\* ---- C21 ----

\* a step of the worker past the top of its loop
WorkerStep ==
    WorkerReturn \/ WorkerRaise \/ WorkerSend \/ WorkerSendReturn \/ WorkerTaskDone

\* C21: there is exactly one worker loop: the one thread started at
\* construction, and no step of a request or of the worker starts another; the
\* loop never ends: the worker is always at a position of the loop body with
\* a next step to take (or waiting in get() on an empty queue), and a raising
\* operation brings it back to the top of the loop.
C21_OneWorkerForever ==
    /\ [](threads = 1)
    /\ [][threads' = threads]_vars
    /\ [](wpc \in {"get", "run", "send", "sending", "task_done"})
    /\ [](wpc # "get" => ENABLED WorkerStep)
    /\ []((wpc = "get" /\ task_queue # << >>) => ENABLED WorkerGet)
    /\ [][(wpc = "run" /\ wpc' # "run") => wpc' \in {"get", "send"}]_vars

C21_Witness ==
    /\ threads = 1
    /\ Len(started) = 2
    /\ started[1] \in dropped
    /\ wpc = "run"

\* ---- C22 ----

\* the job id request r holds or was answered with (0: none)
JobIdOf(r) == IF Live(r) THEN loc[r].job_id ELSE answered[r].job_id

\* C22: every request that reaches the dispatcher is given a job id no
\* other request has: no two requests hold or were answered with the same id,
\* no id is pushed twice, no two envelopes in the queue share one, and
\* webhooks of different requests carry different ids.
C22_JobIdsUnique ==
    /\ \A r \in Requests : Live(r) => loc[r].job_id # 0
    /\ \A r, q \in Requests :
          (r # q /\ JobIdOf(r) # 0) => JobIdOf(r) # JobIdOf(q)
    /\ \A i, k \in 1..Len(pushed) : i # k => pushed[i] # pushed[k]
    /\ \A i, k \in 1..Len(task_queue) :
          i # k => task_queue[i].job_id # task_queue[k].job_id
    /\ \A i, k \in 1..Len(webhooks) :
          webhooks[i].req # webhooks[k].req => webhooks[i].job_id # webhooks[k].job_id
    /\ \A i \in 1..Len(webhooks) :
          \A r \in Requests : JobIdOf(r) = webhooks[i].job_id => r = webhooks[i].req

C22_Witness ==
    \E r, q \in Requests :
       /\ answered[r].status = 200
       /\ answered[q].status = 202
       /\ Len(webhooks) = 1
       /\ webhooks[1].job_id = answered[q].job_id

\* ---- C23 ----

\* what handle_request can return for a normal completion, and the texts of
\* the exceptions process_func and upload_file can raise
NormalResults ==
    { u.value : u \in { x \in UploadOutcomes : x.kind # "raise" } }
       \cup { p.value : p \in { x \in ProcOutcomes : x.kind \in {"dict", "other"} } }

ExceptionTexts ==
    { x.value : x \in { y \in ProcOutcomes \cup UploadOutcomes : y.kind = "raise" } }

\* t is (result, route_path, 200) or (str(exception), route_path, 500)
RouteTuple(t) ==
    /\ t[2] = Route
    /\ \/ t[3] = 200 /\ t[1] \in NormalResults
       \/ t[3] = 500 /\ t[1] \in ExceptionTexts

\* C23: an operation built by create_route never raises: on the worker and
\* on the request thread its call ends with a tuple, (result, route, 200) for
\* a normal completion and (text of the exception, route, 500) when
\* process_func or the upload raised; so no such job is ever dropped by the
\* worker's exception handler.
C23_RouteOperationNeverRaises ==
    /\ [][dropped' # dropped => wloc.task_func.f # "route_handler"]_vars
    /\ [][\A r \in Requests :
             (pc[r] = "inline" /\ pc'[r] = "raised") => loc[r].f # "route_handler"]_vars
    /\ []((wpc = "run" /\ wloc.task_func.f = "route_handler") => ~ENABLED WorkerRaise)
    /\ []((HoldsPayload /\ wloc.task_func.f = "route_handler") => RouteTuple(wloc.response))
    /\ [][\A r \in Requests :
             (pc[r] = "inline" /\ pc'[r] = "done" /\ loc[r].f = "route_handler") =>
                RouteTuple(returned'.response)]_vars

C23_Witness ==
    /\ wpc = "send"
    /\ wloc.task_func.f = "route_handler"
    /\ wloc.response = << "upload failed", Route, 500 >>
    /\ dropped # {}

\* ---- C24 ----

\* C24: on a route built by create_route a request with a missing or wrong
\* key is answered 401 and, with a right key, one without a valid JSON payload
\* is answered 400; such a request never reaches the dispatcher: no job id is
\* drawn for it, nothing is pushed and no operation is begun, then or later;
\* every request the dispatcher handles has passed the stages of its route.
C24_StagesBeforeDispatch ==
    /\ [](\A r \in Requests : pc[r] = "refused" =>
             /\ answered[r].status \in {400, 401}
             /\ answered[r].job_id = 0
             /\ (answered[r].status = 401) <=> ~answered[r].authorized
             /\ (answered[r].status = 400) <=>
                   (answered[r].authorized /\ ~answered[r].well_formed))
    /\ [](\A r \in Requests : Live(r) => loc[r].admissible)
    /\ [](uuid = Cardinality({ r \in Requests : pc[r] \notin {"idle", "refused"} }))
    /\ [][\A r \in Requests :
             (pc[r] = "idle" /\ pc'[r] = "refused") =>
                /\ uuid' = uuid
                /\ task_queue' = task_queue
                /\ unfinished_tasks' = unfinished_tasks
                /\ loc' = loc
                /\ hist' = hist]_vars
    /\ [][\A r \in Requests : pc[r] = "refused" => pc'[r] = "refused"]_vars

C24_Witness ==
    \E r, q \in Requests :
       /\ answered[r].status = 401
       /\ ~answered[r].well_formed
       /\ answered[q].status = 202
       /\ Len(started) = 1
       /\ wloc.task_func.f = "route_handler"

\* ---- C25 ----

\* C25: with a limit N > 0, as long as no two requests were ever between a
\* passed capacity check and their put() at the same time, the backlog holds
\* at most N envelopes.
C25_HardLimitWhenSequential ==
    (Config > 0 /\ maxConc <= 1) => Len(task_queue) <= Config

C25_Witness ==
    /\ Config > 0
    /\ maxConc = 1
    /\ Len(task_queue) = Config
    /\ \E r \in Requests : answered[r].status = 429

\* ---- C26 ----

\* the worker thread is scheduled again and again, every operation it calls
\* returns or raises and every POST it issues comes back or fails; the app
\* runs without a limit or with a limit of one
FairInit == Init /\ environ \in {Unset, "1"}

FairSpec == FairInit /\ [][Next]_vars /\ WF_vars(WorkerGet) /\ WF_vars(WorkerStep)

\* C26: when the worker is scheduled fairly, its operations end and its
\* webhook attempts end, every job answered 202 eventually has its operation
\* begun, and, a run having finitely many requests, from some point on the
\* backlog stays empty.
C26_AcceptedEventuallyStarted ==
    /\ \A r \in Requests :
          (answered[r].status = 202) ~> (answered[r].job_id \in SeqRange(started))
    /\ <>[](task_queue = << >>)

C26_Witness ==
    /\ \A r \in Requests :
          answered[r].status = 202 /\ answered[r].job_id \in SeqRange(started)
    /\ task_queue = << >>
    /\ wpc = "get"

\* ---- C27 ----

\* C27: the worker begins an operation only from the top of its loop, when
\* the webhook of every earlier job that returned has been issued and its
\* attempt has ended; a POST is issued only when no deferred operation is
\* running and no other attempt is in flight, and while an attempt is in
\* flight the worker does nothing else.
C27_WebhookOnCriticalPath ==
    /\ [](wpc = "sending" => WorkerOps = {})
    /\ [][Len(started') > Len(started) =>
             /\ wpc = "get"
             /\ \A j \in SeqRange(started) \ dropped : WebhookCount(j) = 1]_vars
    /\ [][Len(webhooks') > Len(webhooks) =>
             /\ wpc = "send" /\ wpc' = "sending"
             /\ WorkerOps = {}
             /\ Len(webhooks') = Len(webhooks) + 1]_vars
    /\ [][(wpc = "sending" /\ wpc' # "sending") =>
             (wpc' = "task_done" /\ started' = started /\ webhooks' = webhooks)]_vars

C27_Witness ==
    /\ wpc = "sending"
    /\ Len(webhooks) = 1
    /\ Len(task_queue) = 1

\* ---- C28 ----

\* C28: whenever a webhook has been issued for a job, the 202 response of
\* the request that pushed it has already been returned.
C28_WebhookAfter202 ==
    \A i \in 1..Len(webhooks) : answered[webhooks[i].req].status = 202

\* ---- C29 ----

\* C29 as claimed: every 429 envelope reports a queue_length of at least
\* the configured limit.
C29_ReportsAtLeastLimit ==
    returned.status = 429 => returned.body.queue_length >= Config

\* C29: a 429 envelope reports the backlog length at the time the envelope
\* is built; that is at least the limit less the envelopes the worker took
\* since the request's capacity check, so at least the limit when it took none.
C29_ReportsLengthAtBuild ==
    [][\A r \in Requests :
          (pc[r] = "reject" /\ pc'[r] = "done") =>
             /\ returned'.status = 429
             /\ returned'.body.queue_length = Len(task_queue)
             /\ returned'.body.queue_length >=
                   Config - (Len(started) - seen[r].taken)
             /\ Len(started) = seen[r].taken =>
                   returned'.body.queue_length >= Config]_vars

C29_Witness ==
    /\ returned.status = 429
    /\ returned.body.queue_length < Config
    /\ Len(started) > seen[returned.req].taken

\* ---- C30 ----

\* C30: whenever the backlog is empty and the worker is at the top of its
\* loop, the queue's count of unfinished tasks is zero: every envelope taken
\* was marked done, also those whose operation raised.
C30_AllConsumed ==
    (task_queue = << >> /\ wpc = "get") => unfinished_tasks = 0

====
